---- MODULE Spec2Model ----
(***************************************************************************)
(* Model of antibody_virtual_screening.py: load_antibody_data,            *)
(* screen_antibodies and generate_report, called in pipeline order on a   *)
(* batch of raw records.                                                  *)
(*                                                                         *)
(* Numbers.  A Python float is a record [t |-> "float", v |-> n] whose v  *)
(* is the value in tenths (85.0 is 850, 0.5 is 5, -1.0 is -10), or the    *)
(* record NaN.  A composite score is a float whose v is in thousandths.   *)
(* Comparisons are the IEEE ones: every comparison with NaN is false.     *)
(***************************************************************************)
EXTENDS Integers, Sequences, FiniteSets, TLC

VARIABLES
    pc,          \* position of the caller in the pipeline
    raw_data,    \* the batch handed to load_antibody_data
    config,      \* the configuration handed to screen_antibodies
    candidates,  \* the caller's list returned by load_antibody_data
    top,         \* the caller's list returned by screen_antibodies
    exc,         \* the exception that left the last call, or NoExc
    reports,     \* the reports returned by generate_report, oldest first
    printed,     \* number of reports rendered on the console
    files,       \* the reports written to the destination, oldest first
    clock,       \* datetime.now(), advancing with every reading
    lastArgs     \* the arguments of the last generate_report call

vars == <<pc, raw_data, config, candidates, top, exc, reports, printed, files,
          clock, lastArgs>>

(***************************************************************************)
(* Bounds of the model.                                                    *)
(***************************************************************************)
MaxBatch == 2
MaxTieBatch == 7
MaxTopK == 2
MaxReports == 2

(***************************************************************************)
(* Program constants (tenths).                                             *)
(***************************************************************************)
stability_threshold == 750
solubility_threshold == 600
immunogenicity_threshold == 300
MinSeqLen == 50

CONFIG(k) ==
    [stability_threshold |-> stability_threshold,
     solubility_threshold |-> solubility_threshold,
     immunogenicity_threshold |-> immunogenicity_threshold,
     top_k |-> k]

(***************************************************************************)
(* Python values of a raw record.                                          *)
(***************************************************************************)
PyFloat(n) == [t |-> "float", v |-> n]
NaN == [t |-> "nan", v |-> 0]
PyInt(n) == [t |-> "int", v |-> n]
\* an int beyond the range of a double, such as 10**400
PyBigInt == [t |-> "bigint", v |-> 0]
\* a str holding a decimal number, such as "85.0"
PyNumStr(n) == [t |-> "str_num", v |-> n]
\* the str "nan"
PyNanStr == [t |-> "str_nan", v |-> 0]
\* a str that is no number, such as "invalid"
PyBadStr == [t |-> "str_bad", v |-> 0]
PyNone == [t |-> "none", v |-> 0]
\* the str "AB_<n>"
PyIdStr(n) == [t |-> "str_id", v |-> n]
\* the str of the decimal digits of n
PyDigits(n) == [t |-> "str_digits", v |-> n]
\* a str given by its runs of equal characters
PyText(runs) == [t |-> "str_text", runs |-> runs]

NoExc == [type |-> "none", site |-> "none"]
Raised(type, site) == [type |-> type, site |-> site]

\* float(x): the exception it raises, or "none"
FloatError(x) ==
    CASE x.t = "bigint" -> "OverflowError"
      [] x.t = "str_bad" -> "ValueError"
      [] x.t = "none" -> "TypeError"
      [] OTHER -> "none"

\* float(x) where it raises nothing
Float(x) ==
    CASE x.t = "float" -> x
      [] x.t = "nan" -> x
      [] x.t = "int" -> PyFloat(x.v)
      [] x.t = "str_num" -> PyFloat(x.v)
      [] x.t = "str_nan" -> NaN
      [] OTHER -> x

\* str(x) of an id
Str(x) ==
    CASE x.t = "int" -> PyDigits(x.v)
      [] OTHER -> x

\* str.upper() of one run: lower-case letters map to their capital, the
\* German sharp s to "SS"
UpperRun(r) ==
    CASE r.c = "e" -> [c |-> "E", n |-> r.n]
      [] r.c = "sharp_s" -> [c |-> "S", n |-> 2 * r.n]
      [] OTHER -> r

Upper(s) == PyText([i \in 1..Len(s.runs) |-> UpperRun(s.runs[i])])

RECURSIVE SumRuns(_, _)
SumRuns(runs, i) ==
    IF i > Len(runs) THEN 0 ELSE runs[i].n + SumRuns(runs, i + 1)

\* len(s)
StrLen(s) == SumRuns(s.runs, 1)

(***************************************************************************)
(* IEEE comparisons and arithmetic on floats.                              *)
(***************************************************************************)
IsNaN(a) == a.t = "nan"
FLt(a, b) == ~IsNaN(a) /\ ~IsNaN(b) /\ a.v < b.v
FGt(a, b) == FLt(b, a)

\* floor of a / b for b # 0
FloorDiv(a, b) == IF b > 0 THEN a \div b ELSE (0 - a) \div (0 - b)

\* round half to even of a / b for b > 0
RoundDiv(a, b) ==
    LET q == a \div b
        r == a % b
    IN  IF 2 * r > b \/ (2 * r = b /\ q % 2 = 1) THEN q + 1 ELSE q

(***************************************************************************)
(* AntibodyCandidate and its composite score.                              *)
(***************************************************************************)
AntibodyCandidate(id, sequence, st, sol, imm, aff) ==
    [id |-> id, sequence |-> sequence, stability_score |-> st,
     solubility_score |-> sol, immunogenicity_score |-> imm,
     binding_affinity |-> aff]

\* the built-in min(a, b): b only when b < a
PyMin(a, b) == IF FLt(b, a) THEN b ELSE a

\* 100 / (binding_affinity + 1) divides by zero
CompositeRaises(ab) ==
    ~IsNaN(ab.binding_affinity) /\ ab.binding_affinity.v + 10 = 0

\* 100 / (binding_affinity + 1), in thousandths
AffinityQuotient(ab) ==
    IF IsNaN(ab.binding_affinity) THEN NaN
    ELSE PyFloat(FloorDiv(1000000, ab.binding_affinity.v + 10))

\* composite_score of a candidate on which it does not raise, in thousandths
composite_score(ab) ==
    IF \/ IsNaN(ab.stability_score)
       \/ IsNaN(ab.solubility_score)
       \/ IsNaN(ab.immunogenicity_score)
    THEN NaN
    ELSE PyFloat(30 * ab.stability_score.v
                 + 25 * ab.solubility_score.v
                 + 25 * (1000 - ab.immunogenicity_score.v)
                 + FloorDiv(PyMin(PyFloat(100000), AffinityQuotient(ab)).v, 5))

(***************************************************************************)
(* load_antibody_data                                                      *)
(***************************************************************************)
required_fields ==
    <<"id", "sequence", "stability_score", "solubility_score",
      "immunogenicity_score", "binding_affinity">>

HasRequiredFields(record) ==
    \A i \in 1..Len(required_fields) : required_fields[i] \in DOMAIN record

\* the first exception of the four float() calls, in the order of the
\* constructor's arguments, or "none"
RECURSIVE FirstFloatError(_, _)
FirstFloatError(record, i) ==
    IF i > Len(required_fields) THEN "none"
    ELSE IF FloatError(record[required_fields[i]]) # "none"
         THEN FloatError(record[required_fields[i]])
         ELSE FirstFloatError(record, i + 1)

CoercionError(record) == FirstFloatError(record, 3)

\* the exception types of the except clause
ExceptCatches(e) == e \in {"ValueError", "TypeError"}

Coerce(record) ==
    AntibodyCandidate(Str(record["id"]),
                      Upper(record["sequence"]),
                      Float(record["stability_score"]),
                      Float(record["solubility_score"]),
                      Float(record["immunogenicity_score"]),
                      Float(record["binding_affinity"]))

\* one iteration of the loop: "accept", a "skip_..." or "raise"
RecordOutcome(record) ==
    IF ~HasRequiredFields(record) THEN "skip_missing"
    ELSE IF CoercionError(record) # "none"
         THEN IF ExceptCatches(CoercionError(record))
              THEN "skip_format" ELSE "raise"
         ELSE IF StrLen(Coerce(record).sequence) < MinSeqLen
              THEN "skip_short" ELSE "accept"

\* the loop from record idx on, with the candidates appended so far
RECURSIVE LoadLoop(_, _, _)
LoadLoop(raw, idx, acc) ==
    IF idx > Len(raw) THEN [out |-> acc, exc |-> NoExc]
    ELSE LET o == RecordOutcome(raw[idx])
         IN  CASE o = "accept" -> LoadLoop(raw, idx + 1, Append(acc, Coerce(raw[idx])))
               [] o = "raise" ->
                    [out |-> <<>>,
                     exc |-> Raised(CoercionError(raw[idx]), "float")]
               [] OTHER -> LoadLoop(raw, idx + 1, acc)

load_antibody_data(raw) == LoadLoop(raw, 1, <<>>)

(***************************************************************************)
(* sorted(items, key = composite_score, reverse = True) as CPython's       *)
(* list.sort computes it for a list shorter than 64: reverse the list,     *)
(* find the run it starts with, insert the rest by binary search with      *)
(* only "<" on the keys, reverse again.  Indices l, r, p and s are the     *)
(* 0-based ones of the C code.                                             *)
(***************************************************************************)
Reverse(a) == [i \in 1..Len(a) |-> a[Len(a) + 1 - i]]

\* key(x) < key(y)
KeyLt(x, y) == FLt(composite_score(x), composite_score(y))

\* last index of the run of a that goes through index i - 1
RECURSIVE RunEnd(_, _, _)
RunEnd(a, i, desc) ==
    IF i > Len(a) THEN Len(a)
    ELSE IF KeyLt(a[i], a[i - 1]) = desc THEN RunEnd(a, i + 1, desc)
         ELSE i - 1

\* count_run: the length of the run a starts with, made ascending
CountRun(a) ==
    IF Len(a) <= 1 THEN [n |-> Len(a), a |-> a]
    ELSE LET desc == KeyLt(a[2], a[1])
             n == RunEnd(a, 3, desc)
         IN  [n |-> n,
              a |-> IF desc
                    THEN Reverse(SubSeq(a, 1, n)) \o SubSeq(a, n + 1, Len(a))
                    ELSE a]

RECURSIVE BinarySearch(_, _, _, _)
BinarySearch(a, pivot, l, r) ==
    IF l >= r THEN l
    ELSE LET p == l + ((r - l) \div 2)
         IN  IF KeyLt(pivot, a[p + 1])
             THEN BinarySearch(a, pivot, l, p)
             ELSE BinarySearch(a, pivot, p + 1, r)

\* a with the element at s moved to l <= s
MoveTo(a, s, l) ==
    SubSeq(a, 1, l) \o <<a[s + 1]>> \o SubSeq(a, l + 1, s)
        \o SubSeq(a, s + 2, Len(a))

RECURSIVE BinarySort(_, _)
BinarySort(a, s) ==
    IF s >= Len(a) THEN a
    ELSE BinarySort(MoveTo(a, s, BinarySearch(a, a[s + 1], 0, s)), s + 1)

SortedDesc(items) ==
    LET run == CountRun(Reverse(items))
    IN  Reverse(BinarySort(run.a, run.n))

\* the key function raises on some item
KeyRaises(items) == \E i \in 1..Len(items) : CompositeRaises(items[i])

(***************************************************************************)
(* screen_antibodies                                                       *)
(***************************************************************************)
PassesGate(antibody, cfg) ==
    /\ ~FLt(antibody.stability_score, PyFloat(cfg.stability_threshold))
    /\ ~FLt(antibody.solubility_score, PyFloat(cfg.solubility_threshold))
    /\ ~FGt(antibody.immunogenicity_score,
            PyFloat(cfg.immunogenicity_threshold))

Filtered(cands, cfg) == SelectSeq(cands, LAMBDA ab : PassesGate(ab, cfg))

\* ranked[:k] for k >= 0
Slice(ranked, k) ==
    SubSeq(ranked, 1, IF k < Len(ranked) THEN k ELSE Len(ranked))

\* len(filtered)/len(candidates) in the log message divides by zero
PassRateLogRaises(cands) == Len(cands) = 0

screen_antibodies(cands, cfg) ==
    IF KeyRaises(Filtered(cands, cfg))
    THEN [out |-> <<>>, exc |-> Raised("ZeroDivisionError", "composite_score")]
    ELSE IF PassRateLogRaises(cands)
         THEN [out |-> <<>>, exc |-> Raised("ZeroDivisionError", "pass_rate_log")]
         ELSE [out |-> Slice(SortedDesc(Filtered(cands, cfg)), cfg.top_k),
               exc |-> NoExc]

(***************************************************************************)
(* generate_report                                                         *)
(***************************************************************************)
\* round(x, 2) of a composite score: thousandths to hundredths
Round2(x) == IF IsNaN(x) THEN NaN ELSE PyFloat(RoundDiv(x.v, 10))

\* the ".1f" format of a composite score: thousandths to tenths
Format1(x) == IF IsNaN(x) THEN NaN ELSE PyFloat(RoundDiv(x.v, 100))

\* the list generate_report works on: sorted() builds a new list, and an
\* empty list is kept as it is
ReportOrder(top_antibodies) ==
    IF top_antibodies # <<>> THEN SortedDesc(top_antibodies)
    ELSE top_antibodies

\* the caller's list had generate_report sorted it in place
\* (top_antibodies.sort(...)) instead of building a new list
ListAfterReport_InPlace(top_antibodies) == ReportOrder(top_antibodies)

\* what the caller's list holds after the call: sorted() rebinds the
\* parameter and leaves the list that was passed untouched
ListAfterReport(top_antibodies) == top_antibodies

\* len(top_antibodies)/total_input*100 in the ".1f" format, in tenths of a
\* percent, for total_input > 0
PassRate(n, total_input) == RoundDiv(n * 1000, total_input)

\* the division of pass_rate divides by zero
PassRateRaises(total_input) == total_input = 0

TopCandidate(idx, ab) ==
    [rank |-> idx,
     id |-> ab.id,
     sequence |-> ab.sequence,
     stability_score |-> ab.stability_score,
     solubility_score |-> ab.solubility_score,
     immunogenicity_score |-> ab.immunogenicity_score,
     binding_affinity |-> ab.binding_affinity,
     composite_score |-> Round2(composite_score(ab))]

Recommendation(ab) == [id |-> ab.id, score |-> Format1(composite_score(ab))]

Report(sorted, total_input, now) ==
    [timestamp |-> now,
     summary |-> [total_input |-> total_input,
                  passed_count |-> Len(sorted),
                  pass_rate |-> PassRate(Len(sorted), total_input)],
     top_candidates |-> [i \in 1..Len(sorted) |-> TopCandidate(i, sorted[i])],
     recommendations |->
         [i \in 1..Len(Slice(sorted, 3)) |-> Recommendation(sorted[i])]]

NoReport == [timestamp |-> 0]

generate_report(top_antibodies, total_input, now) ==
    IF KeyRaises(top_antibodies)
    THEN [report |-> NoReport,
          exc |-> Raised("ZeroDivisionError", "composite_score")]
    ELSE IF PassRateRaises(total_input)
         THEN [report |-> NoReport,
               exc |-> Raised("ZeroDivisionError", "pass_rate")]
         ELSE [report |-> Report(ReportOrder(top_antibodies), total_input, now),
               exc |-> NoExc]

(***************************************************************************)
(* Batches of raw records.                                                 *)
(***************************************************************************)
FullSequence == PyText(<<[c |-> "E", n |-> 49], [c |-> "e", n |-> 49]>>)
ShortSequence == PyText(<<[c |-> "E", n |-> 5]>>)
\* 49 characters, 50 once upper-cased
SharpSequence == PyText(<<[c |-> "E", n |-> 48], [c |-> "sharp_s", n |-> 1]>>)

RawRow(id, sequence, st, aff) ==
    [id |-> id, sequence |-> sequence, stability_score |-> st,
     solubility_score |-> PyFloat(700), immunogenicity_score |-> PyFloat(250),
     binding_affinity |-> aff]

\* the i-th record of a batch, of the given kind
RawRecord(kind, i) ==
    CASE kind = "s80" -> RawRow(PyIdStr(i), FullSequence, PyFloat(800), PyFloat(5))
      [] kind = "s90" -> RawRow(PyIdStr(i), FullSequence, PyInt(900), PyFloat(5))
      [] kind = "s75" -> RawRow(PyInt(i), FullSequence, PyNumStr(750), PyFloat(5))
      [] kind = "s70" -> RawRow(PyIdStr(i), FullSequence, PyFloat(700), PyFloat(5))
      [] kind = "nan" -> RawRow(PyIdStr(i), FullSequence, PyNanStr, PyFloat(5))
      [] kind = "imm35" ->
           [RawRow(PyIdStr(i), FullSequence, PyFloat(800), PyFloat(5))
                EXCEPT !["immunogenicity_score"] = PyFloat(350)]
      [] kind = "aff_m1" -> RawRow(PyIdStr(i), FullSequence, PyFloat(800), PyInt(-10))
      [] kind = "missing" -> [id |-> PyIdStr(i), sequence |-> FullSequence]
      [] kind = "invalid" -> RawRow(PyIdStr(i), FullSequence, PyBadStr, PyFloat(5))
      [] kind = "none" -> RawRow(PyIdStr(i), FullSequence, PyFloat(800), PyNone)
      [] kind = "huge" -> RawRow(PyIdStr(i), FullSequence, PyBigInt, PyFloat(5))
      [] kind = "short" -> RawRow(PyIdStr(i), ShortSequence, PyFloat(800), PyFloat(5))
      [] kind = "sharp" -> RawRow(PyIdStr(i), SharpSequence, PyFloat(800), PyFloat(5))

Kinds ==
    {"s80", "s90", "s75", "s70", "nan", "imm35", "aff_m1", "missing",
     "invalid", "none", "huge", "short", "sharp"}

TieKinds == {"s80", "s90", "nan"}

Batches(kinds, maxLen) ==
    UNION {{[i \in 1..n |-> RawRecord(ks[i], i)] : ks \in [1..n -> kinds]}
           : n \in 0..maxLen}

Configs == {CONFIG(k) : k \in 1..MaxTopK}

(***************************************************************************)
(* The pipeline.                                                           *)
(***************************************************************************)
NoArgs == [list |-> "none", total_input |-> 0, output_path |-> "none",
           before |-> <<>>]

InitWith(batches) ==
    /\ pc = "start"
    /\ raw_data \in batches
    /\ config \in Configs
    /\ candidates = <<>>
    /\ top = <<>>
    /\ exc = NoExc
    /\ reports = <<>>
    /\ printed = 0
    /\ files = <<>>
    /\ clock = 1
    /\ lastArgs = NoArgs

Init == InitWith(Batches(Kinds, MaxBatch))

InitTies == InitWith(Batches(TieKinds, MaxTieBatch))

\* candidates = load_antibody_data(raw_data)
LoadAntibodyData ==
    /\ pc = "start"
    /\ LET r == load_antibody_data(raw_data)
       IN  /\ candidates' = r.out
           /\ exc' = r.exc
           /\ pc' = IF r.exc = NoExc THEN "loaded" ELSE "load_raised"
    /\ UNCHANGED <<raw_data, config, top, reports, printed, files, clock,
                   lastArgs>>

\* top = screen_antibodies(candidates, config)
ScreenAntibodies ==
    /\ pc = "loaded"
    /\ LET r == screen_antibodies(candidates, config)
       IN  /\ top' = r.out
           /\ exc' = r.exc
           /\ pc' = IF r.exc = NoExc THEN "screened" ELSE "screen_raised"
    /\ UNCHANGED <<raw_data, config, candidates, reports, printed, files,
                   clock, lastArgs>>

\* the caller's list of that name
ListOf(name) == IF name = "candidates" THEN candidates ELSE top

\* generate_report(list, total_input, output_path): on the loaded
\* candidates or on the screened ones, and again with the same arguments
GenerateReport ==
    \E total_input \in {0, Len(raw_data)},
       output_path \in {"none", "screening_report.json"} :
        LET list == CASE pc = "loaded" -> "candidates"
                      [] pc = "screened" -> "top"
                      [] OTHER -> lastArgs.list
            r == generate_report(ListOf(list), total_input, clock)
        IN  /\ \/ pc \in {"loaded", "screened"}
               \/ /\ pc = "reported"
                  /\ Len(reports) < MaxReports
                  /\ total_input = lastArgs.total_input
                  /\ output_path = lastArgs.output_path
            /\ lastArgs' = [list |-> list, total_input |-> total_input,
                            output_path |-> output_path,
                            before |-> ListOf(list)]
            /\ candidates' = IF list = "candidates"
                             THEN ListAfterReport(candidates) ELSE candidates
            /\ top' = IF list = "top" THEN ListAfterReport(top) ELSE top
            /\ exc' = r.exc
            /\ clock' = IF r.exc.site = "composite_score" THEN clock
                        ELSE clock + 1
            /\ IF r.exc = NoExc
               THEN /\ pc' = "reported"
                    /\ reports' = Append(reports, r.report)
                    /\ printed' = printed + 1
                    /\ files' = IF output_path = "none" THEN files
                                ELSE Append(files, r.report)
               ELSE /\ pc' = "report_raised"
                    /\ UNCHANGED <<reports, printed, files>>
            /\ UNCHANGED <<raw_data, config>>

Next == LoadAntibodyData \/ ScreenAntibodies \/ GenerateReport

Spec == Init /\ [][Next]_vars

SpecTies == InitTies /\ [][Next]_vars

(***************************************************************************)
(* Vocabulary of the properties.                                           *)
(***************************************************************************)
Returned(call) == pc = call
Finished(ok, raised) == pc \in {ok, raised}

\* the three checks of the Loader as the specification states them
CoercionSucceeds(record) ==
    \A i \in 3..Len(required_fields) :
        FloatError(record[required_fields[i]]) = "none"

PassesLoaderChecks(record) ==
    /\ HasRequiredFields(record)
    /\ CoercionSucceeds(record)
    /\ StrLen(Upper(record["sequence"])) >= MinSeqLen

ValidRecords(raw) == SelectSeq(raw, PassesLoaderChecks)

\* a >= b and a <= b on floats
FGe(a, b) == ~IsNaN(a) /\ ~IsNaN(b) /\ a.v >= b.v
FLe(a, b) == FGe(b, a)

\* the three gates as the specification states them
SatisfiesGates(ab, cfg) ==
    /\ FGe(ab.stability_score, PyFloat(cfg.stability_threshold))
    /\ FGe(ab.solubility_score, PyFloat(cfg.solubility_threshold))
    /\ FLe(ab.immunogenicity_score, PyFloat(cfg.immunogenicity_threshold))

Survivors(cands, cfg) == SelectSeq(cands, LAMBDA ab : SatisfiesGates(ab, cfg))

Position(list, ab) == CHOOSE i \in 1..Len(list) : list[i] = ab

IsIn(list, ab) == \E i \in 1..Len(list) : list[i] = ab

\* every pair of the list is in non-increasing order of the score
NonIncreasing(list, Score(_)) ==
    \A i, j \in 1..Len(list) : i < j => FGe(Score(list[i]), Score(list[j]))

ReportedScore(entry) == entry.composite_score

EqualScore(a, b) ==
    /\ ~IsNaN(composite_score(a))
    /\ ~IsNaN(composite_score(b))
    /\ composite_score(a).v = composite_score(b).v

(***************************************************************************)
(* Properties.                                                             *)
(***************************************************************************)

\* C1: for every batch, load_antibody_data returns exactly the records that
\* pass the three checks (six keys present, coercion succeeds, upper-cased
\* sequence of at least 50 characters), coerced, in input order; so the
\* output is no longer than the input, as long iff every record passes,
\* and no record lacking a field or with a short sequence is in it.
C1_LoaderReturnsValidRecords ==
    Finished("loaded", "load_raised") =>
        /\ Returned("loaded")
        /\ candidates =
               [i \in 1..Len(ValidRecords(raw_data)) |->
                    Coerce(ValidRecords(raw_data)[i])]
        /\ Len(candidates) <= Len(raw_data)
        /\ (Len(candidates) = Len(raw_data)) <=>
               (\A i \in 1..Len(raw_data) : PassesLoaderChecks(raw_data[i]))

\* C2: however the processing of a record fails, load_antibody_data lets no
\* exception reach the caller; the call returns the valid subset.
C2_LoaderPropagatesNoException ==
    pc # "load_raised" /\ (pc = "loaded" => exc = NoExc)

\* C3: for a positive top_k the list screen_antibodies returns is sorted by
\* composite score in non-increasing order and is no longer than top_k.
C3_ScreenSortedAndBounded ==
    (Returned("screened") /\ config.top_k > 0) =>
        /\ NonIncreasing(top, composite_score)
        /\ Len(top) <= config.top_k

\* C4: every record screen_antibodies returns is an input record that
\* satisfies the three gates (bounds inclusive); when at most top_k records
\* satisfy them, all of these are returned; the output has
\* min(top_k, number of survivors) records.
C4_ScreenReturnsGateSurvivors ==
    Returned("screened") =>
        LET survivors == Survivors(candidates, config)
            n == Len(survivors)
        IN  /\ \A i \in 1..Len(top) :
                   IsIn(candidates, top[i]) /\ SatisfiesGates(top[i], config)
            /\ n <= config.top_k =>
                   \A i \in 1..n : IsIn(top, survivors[i])
            /\ Len(top) = IF config.top_k < n THEN config.top_k ELSE n

\* C5: screen_antibodies on an empty candidate list completes and returns
\* an empty list; it does not end in a division by zero.
C5_ScreenEmptyInputReturnsEmpty ==
    (Finished("screened", "screen_raised") /\ candidates = <<>>) =>
        Returned("screened") /\ top = <<>> /\ exc = NoExc

\* C6: generate_report with total_input = 0 ends in a guarded domain
\* error: the pass-rate division is not executed with a zero denominator,
\* no report is returned, nothing is printed or written.
C6_ReportZeroTotalIsDomainError ==
    (Finished("reported", "report_raised") /\ lastArgs.total_input = 0) =>
        /\ Returned("report_raised")
        /\ exc # Raised("ZeroDivisionError", "pass_rate")
        /\ reports = <<>>
        /\ printed = 0
        /\ files = <<>>

\* C7: for every candidate list and every non-zero total_input the
\* top_candidates of the returned report list every supplied candidate
\* once, ordered by composite score non-increasing, with ranks 1, 2, ..., n
\* in list order, and passed_count is n, the length of the supplied list.
C7_ReportRanksEveryCandidate ==
    Returned("reported") =>
        LET r == reports[Len(reports)]
            given == lastArgs.before
            n == Len(given)
        IN  /\ Len(r.top_candidates) = n
            /\ r.summary.passed_count = n
            /\ \A i \in 1..n : r.top_candidates[i].rank = i
            /\ \A i \in 1..n :
                   Cardinality({j \in 1..n :
                       r.top_candidates[j] =
                           TopCandidate(j, given[i])}) = 1
            /\ NonIncreasing(r.top_candidates, ReportedScore)

\* C8: scoring a record the Loader produced never fails: whatever
\* binding_affinity the Loader admits, 100/(binding_affinity + 1) does not
\* divide by zero in screen_antibodies or generate_report.
C8_ScoringLoadedRecordNeverFails ==
    exc # Raised("ZeroDivisionError", "composite_score")

\* C9: two successive generate_report calls on the same list with the same
\* total_input return the same summary and the same top_candidates (the
\* timestamp apart), and a call leaves the caller's list and its records
\* as they were, sorted or not.
C9_ReportIdempotent ==
    /\ \A i \in 1..(Len(reports) - 1) :
           /\ reports[i].summary = reports[i + 1].summary
           /\ reports[i].top_candidates = reports[i + 1].top_candidates
    /\ Finished("reported", "report_raised") =>
           ListOf(lastArgs.list) = lastArgs.before

\* Two reports were returned for a list that was passed out of order.
C9_Witness ==
    /\ Len(reports) = 2
    /\ reports[1].timestamp # reports[2].timestamp
    /\ \E i, j \in 1..Len(lastArgs.before) :
           i < j /\ KeyLt(lastArgs.before[i], lastArgs.before[j])

\* C10: the ranking of screen_antibodies is stable: of two gate-surviving
\* records with equal composite score the one earlier in the input is
\* earlier in the output, and where the truncation to top_k cuts between
\* them the earlier one is the one kept.
C10_ScreenRankingStable ==
    Returned("screened") =>
        \A i, j \in 1..Len(candidates) :
            (/\ i < j
             /\ PassesGate(candidates[i], config)
             /\ EqualScore(candidates[i], candidates[j])
             /\ IsIn(top, candidates[j]))
            => /\ IsIn(top, candidates[i])
               /\ Position(top, candidates[i]) < Position(top, candidates[j])

(***************************************************************************)
(* Lemmas: where the properties above fail, they fail on one kind of       *)
(* input only.                                                             *)
(***************************************************************************)
HasNaN(ab) ==
    \/ IsNaN(ab.stability_score)
    \/ IsNaN(ab.solubility_score)
    \/ IsNaN(ab.immunogenicity_score)

NaNFree(list) == \A i \in 1..Len(list) : ~HasNaN(list[i])

\* With no float() overflowing in the batch, the Loader returns the valid
\* records and raises nothing.
LoaderWithoutOverflow ==
    (\A i \in 1..Len(raw_data) :
        HasRequiredFields(raw_data[i])
            => CoercionError(raw_data[i]) # "OverflowError")
    => C1_LoaderReturnsValidRecords /\ C2_LoaderPropagatesNoException

\* With no NaN score among the candidates, what screen_antibodies returns
\* is sorted, within top_k, made of the gate survivors, and stable.
ScreenWithoutNaN ==
    NaNFree(candidates) =>
        /\ C3_ScreenSortedAndBounded
        /\ C4_ScreenReturnsGateSurvivors
        /\ C10_ScreenRankingStable

\* With no NaN score in the list, the report ranks every candidate.
ReportWithoutNaN ==
    NaNFree(lastArgs.before) => C7_ReportRanksEveryCandidate

====
